---- MODULE Spec2Model ----
(***************************************************************************)
(* The SCP transport engine of rig_c_scp: one connection with a fixed pool *)
(* of outstanding channels, a request queue, the retry/timeout machinery   *)
(* of rs__transport.c and the libuv event loop that drives it.             *)
(*                                                                         *)
(* Every event-loop callback (send completion, timer, datagram receive)    *)
(* and every public call (rs_send_scp, rs_free) is one atomic action: the  *)
(* library is single threaded and control returns to the loop only between *)
(* callbacks.                                                              *)
(*                                                                         *)
(* rs__transport.c is modelled from its source.  rs__cancel_outstanding,   *)
(* rs__process_request_queue, rs__process_response, rs_send_scp and        *)
(* rs_free are called by it but defined elsewhere; they are modelled from  *)
(* the specification's sections 4.2, 4.4 and 4.5.                          *)
(***************************************************************************)
EXTENDS Integers, Sequences, FiniteSets, TLC

\* ---------------------------------------------------------------- bounds
NChannels == 2      \* conn->n_outstanding
NTries == 2         \* conn->n_tries
MaxRequests == 3    \* number of rs_send_scp calls explored
MaxLen == 5         \* longest bulk transfer explored, in bytes
ScpDataLength == 2  \* conn->scp_data_length, the longest segment payload

\* ------------------------------------------------------------- constants
SeqMod == 65536             \* sequence numbers are uint16_t
SizeofScpPacket == 14       \* RS__SIZEOF_SCP_PACKET(0, 0)
ErrRc == 0 - 1              \* the error code rs__transport.c hands to cancel
CancelRc == 0 - 2           \* the error code of a cancellation by rs_free
OkRc == 0                   \* no error: a response was processed

Channels == 1..NChannels
Requests == 1..MaxRequests
SeqVals == 0..MaxRequests
NreadVals == {0 - 1, 0, SizeofScpPacket - 1, SizeofScpPacket}
StatusVals == {0, 0 - 1}

VARIABLES
    active,           \* os->active
    cancelled,        \* os->cancelled
    send_req_active,  \* os->send_req_active
    n_tries,          \* os->n_tries
    seq_num,          \* os->seq_num
    req,              \* the request (callback, cb_data) a channel holds; 0 = none yet
    timer,            \* libuv: os->timer_handle is armed
    pending,          \* libuv: os->send_req is submitted and not yet called back
    queue,            \* conn's request queue
    next_seq,         \* the sequence allocator
    free,             \* conn->free
    closing,          \* teardown begun: the handles are being closed
    closed,           \* teardown done: close callbacks ran, connection freed
    n_sent,           \* number of rs_send_scp calls accepted so far
    cbs,              \* per request: number of completion callbacks (capped at 2)
    cb_rc,            \* per request: the error code of its last callback
    cause,            \* per request: why its last callback was made
    tx,               \* per request: number of uv_udp_send calls made for it
    waited,           \* per request: rs_send_scp returned with it still queued
    reused_in_flight, \* a channel was given a new request while its send was in flight
    n_outstanding,    \* conn->n_outstanding, the size of the channel pool in use
    last_cb,          \* the request whose completion callback was made last; 0 = none
    out_of_order,     \* a callback was made after that of a request sent later
    xfer,             \* the bulk write and the bulk read: one transfer record each
    mem               \* the peer's memory at the transfer's address

vars == <<active, cancelled, send_req_active, n_tries, seq_num, req, timer,
          pending, queue, next_seq, free, closing, closed, n_sent, cbs, cb_rc,
          cause, tx, waited, reused_in_flight, n_outstanding, last_cb, out_of_order,
          xfer, mem>>

\* The state as one record, so that a handler and the calls it makes are
\* one function from state to state.
St ==
    [active |-> active, cancelled |-> cancelled,
     send_req_active |-> send_req_active, n_tries |-> n_tries,
     seq_num |-> seq_num, req |-> req, timer |-> timer, pending |-> pending,
     queue |-> queue, next_seq |-> next_seq, free |-> free,
     closing |-> closing, closed |-> closed,
     n_sent |-> n_sent, cbs |-> cbs, cb_rc |-> cb_rc, cause |-> cause,
     tx |-> tx, waited |-> waited, reused_in_flight |-> reused_in_flight,
     n_outstanding |-> n_outstanding, last_cb |-> last_cb,
     out_of_order |-> out_of_order]

Becomes(s) ==
    \E t \in {s} :
        /\ active' = t.active
        /\ cancelled' = t.cancelled
        /\ send_req_active' = t.send_req_active
        /\ n_tries' = t.n_tries
        /\ seq_num' = t.seq_num
        /\ req' = t.req
        /\ timer' = t.timer
        /\ pending' = t.pending
        /\ queue' = t.queue
        /\ next_seq' = t.next_seq
        /\ free' = t.free
        /\ closing' = t.closing
        /\ closed' = t.closed
        /\ n_sent' = t.n_sent
        /\ cbs' = t.cbs
        /\ cb_rc' = t.cb_rc
        /\ cause' = t.cause
        /\ tx' = t.tx
        /\ waited' = t.waited
        /\ reused_in_flight' = t.reused_in_flight
        /\ n_outstanding' = t.n_outstanding
        /\ last_cb' = t.last_cb
        /\ out_of_order' = t.out_of_order
        /\ UNCHANGED <<xfer, mem>>

Min(a, b) == IF a < b THEN a ELSE b

\* The user's completion callback of request r is invoked with error code rc.
Callback(s, r, rc, why) ==
    [s EXCEPT !.cbs[r] = Min(@ + 1, 2), !.cb_rc[r] = rc, !.cause[r] = why,
              !.last_cb = r, !.out_of_order = @ \/ r < s.last_cb]

\* The channels of the pool: conn->outstanding[0 .. n_outstanding).
Pool(s) == 1..s.n_outstanding

\* ------------------------------------------------- sequence allocation
\* Linear probe from v to the first value no active channel holds.
RECURSIVE ProbeSeq(_, _)
ProbeSeq(s, v) ==
    IF \E c \in Pool(s) : s.active[c] /\ s.seq_num[c] = v
    THEN ProbeSeq(s, (v + 1) % SeqMod)
    ELSE v

\* The inactive channel the dispatch loop selects: the first of the pool.
InactiveChannel(s) ==
    CHOOSE c \in Pool(s) :
        /\ ~s.active[c]
        /\ \A d \in Pool(s) : d < c => s.active[d]

RECURSIVE AttemptTransmission(_, _, _)
RECURSIVE CancelOutstanding(_, _, _, _, _)
RECURSIVE ProcessRequestQueue(_, _)

\* rs__attempt_transmission that forgets to set send_req_active.
AttemptTransmissionNoFlag(s, c, fail) ==
    IF ~s.active[c] THEN s
    ELSE LET n  == s.n_tries[c] + 1
             s1 == [s EXCEPT !.n_tries[c] = n]
         IN  IF n <= NTries
             THEN LET s2 == [s1 EXCEPT !.tx[s.req[c]] = @ + 1]
                  IN  IF s.req[c] \in fail
                      THEN CancelOutstanding(s2, c, ErrRc, "send_failed", fail)
                      ELSE [s2 EXCEPT !.pending[c] = TRUE]
             ELSE CancelOutstanding(s1, c, ErrRc, "exhausted", fail)

\* rs__attempt_transmission that compares with < instead of <=.
AttemptTransmissionOffByOne(s, c, fail) ==
    IF ~s.active[c] THEN s
    ELSE LET n  == s.n_tries[c] + 1
             s1 == [s EXCEPT !.n_tries[c] = n]
         IN  IF n < NTries
             THEN LET s2 == [s1 EXCEPT !.send_req_active[c] = TRUE,
                                       !.tx[s.req[c]] = @ + 1]
                  IN  IF s.req[c] \in fail
                      THEN CancelOutstanding(
                               [s2 EXCEPT !.send_req_active[c] = FALSE],
                               c, ErrRc, "send_failed", fail)
                      ELSE [s2 EXCEPT !.pending[c] = TRUE]
             ELSE CancelOutstanding(s1, c, ErrRc, "exhausted", fail)

\* ----------------------------------------------------- rs__transport.c
\* rs__attempt_transmission without the test of os->active.
AttemptTransmissionNoActiveTest(s, c, fail) ==
    LET n  == s.n_tries[c] + 1
        s1 == [s EXCEPT !.n_tries[c] = n]
    IN  IF n <= NTries
        THEN LET s2 == [s1 EXCEPT !.send_req_active[c] = TRUE,
                                  !.tx[s.req[c]] = @ + 1]
             IN  IF s.req[c] \in fail
                 THEN CancelOutstanding(
                          [s2 EXCEPT !.send_req_active[c] = FALSE],
                          c, ErrRc, "send_failed", fail)
                 ELSE [s2 EXCEPT !.pending[c] = TRUE]
        ELSE CancelOutstanding(s1, c, ErrRc, "exhausted", fail)

\* rs__attempt_transmission that starts the retransmit timer as it submits
\* the send, instead of leaving that to the send callback.
AttemptTransmissionArmsTimer(s, c, fail) ==
    IF ~s.active[c] THEN s
    ELSE LET n  == s.n_tries[c] + 1
             s1 == [s EXCEPT !.n_tries[c] = n]
         IN  IF n <= NTries
             THEN LET s2 == [s1 EXCEPT !.send_req_active[c] = TRUE,
                                       !.tx[s.req[c]] = @ + 1]
                  IN  IF s.req[c] \in fail
                      THEN CancelOutstanding(
                               [s2 EXCEPT !.send_req_active[c] = FALSE],
                               c, ErrRc, "send_failed", fail)
                      ELSE [s2 EXCEPT !.pending[c] = TRUE, !.timer[c] = TRUE]
             ELSE CancelOutstanding(s1, c, ErrRc, "exhausted", fail)

\* rs__attempt_transmission.  fail is the set of requests whose
\* uv_udp_send submission fails synchronously during this handler.
AttemptTransmission(s, c, fail) ==
    IF ~s.active[c] THEN s
    ELSE LET n  == s.n_tries[c] + 1
             s1 == [s EXCEPT !.n_tries[c] = n]
         IN  IF n <= NTries
             THEN LET s2 == [s1 EXCEPT !.send_req_active[c] = TRUE,
                                       !.tx[s.req[c]] = @ + 1]
                  IN  IF s.req[c] \in fail
                      THEN CancelOutstanding(
                               [s2 EXCEPT !.send_req_active[c] = FALSE],
                               c, ErrRc, "send_failed", fail)
                      ELSE [s2 EXCEPT !.pending[c] = TRUE]
             ELSE CancelOutstanding(s1, c, ErrRc, "exhausted", fail)

\* ------------------------------------- the rest of the transport engine
\* rs__cancel_outstanding that does not run the dispatch loop.
CancelOutstandingNoDispatch(s, c, rc, why, fail) ==
    LET s1 == [s EXCEPT !.timer[c] = FALSE]
    IN  IF s1.send_req_active[c]
        THEN [s1 EXCEPT !.cancelled[c] = TRUE]
        ELSE Callback([s1 EXCEPT !.active[c] = FALSE], s1.req[c], rc, why)

\* rs__cancel_outstanding: stop the timer; with a send in flight only mark
\* the channel cancelled, otherwise release it, call back and dispatch.
CancelOutstanding(s, c, rc, why, fail) ==
    LET s1 == [s EXCEPT !.timer[c] = FALSE]
    IN  IF s1.send_req_active[c]
        THEN [s1 EXCEPT !.cancelled[c] = TRUE]
        ELSE ProcessRequestQueue(
                 Callback([s1 EXCEPT !.active[c] = FALSE], s1.req[c], rc, why),
                 fail)

\* A dispatch loop that hands out next_seq without advancing it.
ProcessRequestQueueSameSeq(s, fail) ==
    IF s.free \/ s.queue = <<>> \/ (\A c \in Pool(s) : s.active[c]) THEN s
    ELSE LET c  == InactiveChannel(s)
             r  == Head(s.queue)
             s1 == [s EXCEPT !.queue = Tail(@),
                             !.active[c] = TRUE,
                             !.n_tries[c] = 0,
                             !.seq_num[c] = s.next_seq,
                             !.req[c] = r,
                             !.reused_in_flight =
                                 @ \/ s.send_req_active[c] \/ s.pending[c]]
         IN  ProcessRequestQueue(AttemptTransmission(s1, c, fail), fail)

\* rs__process_request_queue, the dispatch loop.  It admits no request
\* once the connection is freeing: rs_free completes every queued request
\* with a cancellation.
ProcessRequestQueue(s, fail) ==
    IF s.free \/ s.queue = <<>> \/ (\A c \in Pool(s) : s.active[c]) THEN s
    ELSE LET c  == InactiveChannel(s)
             r  == Head(s.queue)
             v  == ProbeSeq(s, s.next_seq)
             s1 == [s EXCEPT !.queue = Tail(@),
                             !.next_seq = (v + 1) % SeqMod,
                             !.active[c] = TRUE,
                             !.n_tries[c] = 0,
                             !.seq_num[c] = v,
                             !.req[c] = r,
                             !.reused_in_flight =
                                 @ \/ s.send_req_active[c] \/ s.pending[c]]
         IN  ProcessRequestQueue(AttemptTransmission(s1, c, fail), fail)

\* rs__process_response: a response completes a channel that waits for
\* one.  rs__udp_recv_cb hands it every active channel holding the sequence
\* number; by the state table of the channel, a matching datagram makes no
\* transition in a channel whose send is still in flight, so that a
\* channel is never released before its send completion.
ProcessResponse(s, c, fail) ==
    IF s.send_req_active[c] THEN s
    ELSE ProcessRequestQueue(
             Callback([s EXCEPT !.timer[c] = FALSE, !.active[c] = FALSE],
                      s.req[c], OkRc, "response"),
             fail)

RECURSIVE CancelAll(_, _, _)
CancelAll(s, c, fail) ==
    IF c > s.n_outstanding THEN s
    ELSE CancelAll(IF s.active[c]
                   THEN CancelOutstanding(s, c, CancelRc, "free", fail)
                   ELSE s,
                   c + 1, fail)

RECURSIVE DrainQueue(_)
DrainQueue(s) ==
    IF s.queue = <<>> THEN s
    ELSE DrainQueue(Callback([s EXCEPT !.queue = Tail(@)],
                             Head(s.queue), CancelRc, "free"))

\* rs_free: mark the connection freeing, cancel every active channel,
\* drain the queue, and begin the teardown once no send is in flight.  The
\* teardown only asks libuv to close the handles; the connection is freed
\* by the close callbacks, which the event loop runs after rs_free returned.
Teardown(s) ==
    IF \A c \in Pool(s) : ~s.send_req_active[c]
    THEN [s EXCEPT !.closing = TRUE]
    ELSE s

RsFree(s, fail) ==
    Teardown(DrainQueue(CancelAll([s EXCEPT !.free = TRUE], 1, fail)))

\* rs_send_scp: enqueue and run the dispatch loop.
RsSendScp(s, fail) ==
    LET r  == s.n_sent + 1
        s1 == ProcessRequestQueue(
                  [s EXCEPT !.n_sent = r, !.queue = Append(@, r)], fail)
    IN  [s1 EXCEPT !.waited[r] = \E i \in 1..Len(s1.queue) : s1.queue[i] = r]

\* ----------------------------------------------------- rs__transport.c
\* rs__timer_cb that does not attempt the retransmission.
TimerCbNoRetry(s, c, fail) == [s EXCEPT !.timer[c] = FALSE]

\* rs__timer_cb
TimerCb(s, c, fail) ==
    AttemptTransmission([s EXCEPT !.timer[c] = FALSE], c, fail)

\* rs__udp_send_cb that does not return after cancelling on a send error
\* and goes on to start the timer.
UdpSendCbNoReturnOnError(s, c, status, fail) ==
    LET s1 == [s EXCEPT !.pending[c] = FALSE, !.send_req_active[c] = FALSE]
    IN  IF s1.free THEN RsFree(s1, fail)
        ELSE IF s1.active[c] /\ s1.cancelled[c]
        THEN ProcessRequestQueue(
                 [s1 EXCEPT !.active[c] = FALSE, !.cancelled[c] = FALSE], fail)
        ELSE IF status # 0
        THEN [CancelOutstanding(s1, c, ErrRc, "send_error", fail)
                  EXCEPT !.timer[c] = TRUE]
        ELSE [s1 EXCEPT !.timer[c] = TRUE]

\* rs__udp_send_cb that returns without re-attempting rs_free.
UdpSendCbNoRefree(s, c, status, fail) ==
    LET s1 == [s EXCEPT !.pending[c] = FALSE, !.send_req_active[c] = FALSE]
    IN  IF s1.free THEN s1
        ELSE IF s1.active[c] /\ s1.cancelled[c]
        THEN ProcessRequestQueue(
                 [s1 EXCEPT !.active[c] = FALSE, !.cancelled[c] = FALSE], fail)
        ELSE IF status # 0
        THEN CancelOutstanding(s1, c, ErrRc, "send_error", fail)
        ELSE [s1 EXCEPT !.timer[c] = TRUE]

\* rs__udp_send_cb that finishes the teardown itself instead of
\* re-attempting rs_free.
UdpSendCbTeardownOnly(s, c, status, fail) ==
    LET s1 == [s EXCEPT !.pending[c] = FALSE, !.send_req_active[c] = FALSE]
    IN  IF s1.free THEN Teardown(s1)
        ELSE IF s1.active[c] /\ s1.cancelled[c]
        THEN ProcessRequestQueue(
                 [s1 EXCEPT !.active[c] = FALSE, !.cancelled[c] = FALSE], fail)
        ELSE IF status # 0
        THEN CancelOutstanding(s1, c, ErrRc, "send_error", fail)
        ELSE [s1 EXCEPT !.timer[c] = TRUE]

\* rs__udp_send_cb
UdpSendCb(s, c, status, fail) ==
    LET s1 == [s EXCEPT !.pending[c] = FALSE, !.send_req_active[c] = FALSE]
    IN  IF s1.free THEN RsFree(s1, fail)
        ELSE IF s1.active[c] /\ s1.cancelled[c]
        THEN ProcessRequestQueue(
                 [s1 EXCEPT !.active[c] = FALSE, !.cancelled[c] = FALSE], fail)
        ELSE IF status # 0
        THEN CancelOutstanding(s1, c, ErrRc, "send_error", fail)
        ELSE [s1 EXCEPT !.timer[c] = TRUE]

\* The channel the receive scan stops at: the first active one holding seq.
MatchingChannel(s, seq) ==
    CHOOSE c \in Pool(s) :
        /\ s.active[c] /\ s.seq_num[c] = seq
        /\ \A d \in Pool(s) : d < c => ~(s.active[d] /\ s.seq_num[d] = seq)

\* rs__udp_recv_cb whose scan does not test os->active.
UdpRecvCbAnyChannel(s, nread, seq, fail) ==
    IF nread >= SizeofScpPacket
       /\ \E c \in Channels : s.req[c] # 0 /\ s.seq_num[c] = seq
    THEN ProcessResponse(
             s, CHOOSE c \in Channels : s.req[c] # 0 /\ s.seq_num[c] = seq, fail)
    ELSE s

\* rs__udp_recv_cb that does not test the datagram's length.
UdpRecvCbNoLengthCheck(s, nread, seq, fail) ==
    IF \E c \in Pool(s) : s.active[c] /\ s.seq_num[c] = seq
    THEN ProcessResponse(s, MatchingChannel(s, seq), fail)
    ELSE s

\* rs__udp_recv_cb, for a datagram of nread bytes carrying seq.
UdpRecvCb(s, nread, seq, fail) ==
    IF nread >= SizeofScpPacket
       /\ \E c \in Pool(s) : s.active[c] /\ s.seq_num[c] = seq
    THEN ProcessResponse(s, MatchingChannel(s, seq), fail)
    ELSE s

\* ------------------------------------------------- bulk transfer engine
Bytes == {0, 1}
SegmentRcs == {OkRc, ErrRc, CancelRc}

\* A transfer that was not started.
NoTransfer ==
    [started |-> FALSE, len |-> 0, next |-> 0, segs |-> {}, first_error |-> 0,
     buffer |-> <<>>, cbs |-> 0, rc |-> 0, done |-> 0, first_seen |-> 0,
     last_off |-> 0 - 1, reordered |-> FALSE]

\* The number of segments of a transfer of len bytes.
NSegments(len) == (len + ScpDataLength - 1) \div ScpDataLength

\* Issue segments while bytes remain to schedule and the window has room.
RECURSIVE IssueSegments(_, _)
IssueSegments(T, window) ==
    IF T.next < T.len /\ Cardinality(T.segs) < window
    THEN LET n == Min(T.len - T.next, ScpDataLength)
         IN  IssueSegments(
                 [T EXCEPT !.segs = @ \cup {[off |-> T.next, len |-> n]},
                           !.next = @ + n],
                 window)
    ELSE T

\* rs_read and rs_write: start a transfer over the caller's buffer.
StartTransfer(buffer, window) ==
    IssueSegments([NoTransfer EXCEPT !.started = TRUE, !.len = Len(buffer),
                                     !.buffer = buffer],
                  window)

\* The caller's completion callback, with the first error if any.
TransferComplete(T) ==
    [T EXCEPT !.cbs = Min(@ + 1, 2), !.rc = T.first_error]

\* A copy that ignores the segment's offset.
CopyPayloadAtStart(buffer, seg, payload) ==
    [i \in 1..Len(buffer) |->
        IF i <= seg.len THEN payload[i] ELSE buffer[i]]

\* A segment's payload is copied to the buffer at the segment's offset.
CopyPayload(buffer, seg, payload) ==
    [i \in 1..Len(buffer) |->
        IF seg.off < i /\ i <= seg.off + seg.len
        THEN payload[i - seg.off]
        ELSE buffer[i]]

\* A segment completion that completes the transfer as soon as no segment
\* is outstanding, before it issues the next one.
SegmentCallbackCompletesEarly(T, seg, rc, payload, isRead, window) ==
    LET T1 == [T EXCEPT
                 !.segs = @ \ {seg},
                 !.done = @ + 1,
                 !.first_error = IF @ = 0 /\ rc # OkRc THEN rc ELSE @,
                 !.first_seen = IF @ = 0 /\ rc # OkRc THEN rc ELSE @,
                 !.reordered = @ \/ seg.off < T.last_off,
                 !.last_off = seg.off,
                 !.buffer = IF isRead /\ rc = OkRc /\ T.first_error = 0
                            THEN CopyPayload(@, seg, payload)
                            ELSE @]
    IN  IF T1.segs = {}
        THEN IssueSegments(TransferComplete(T1), window)
        ELSE IssueSegments(T1, window)

\* The completion of one segment: record it and the first error, copy a
\* read's payload, issue the next segment, and complete the transfer when
\* no segment is outstanding and no bytes remain.
SegmentCallback(T, seg, rc, payload, isRead, window) ==
    LET T1 == [T EXCEPT
                 !.segs = @ \ {seg},
                 !.done = @ + 1,
                 !.first_error = IF @ = 0 /\ rc # OkRc THEN rc ELSE @,
                 !.first_seen = IF @ = 0 /\ rc # OkRc THEN rc ELSE @,
                 !.reordered = @ \/ seg.off < T.last_off,
                 !.last_off = seg.off,
                 !.buffer = IF isRead /\ rc = OkRc /\ T.first_error = 0
                            THEN CopyPayload(@, seg, payload)
                            ELSE @]
        T2 == IssueSegments(T1, window)
    IN  IF T2.segs = {} /\ T2.next = T2.len THEN TransferComplete(T2) ELSE T2

\* The bytes of the peer's memory a segment covers.
MemSlice(m, seg) == [i \in 1..seg.len |-> m[seg.off + i]]

\* The peer's memory after it has performed a write segment.
MemWrite(m, seg, buffer) ==
    [i \in 1..Len(m) |->
        IF seg.off < i /\ i <= seg.off + seg.len THEN buffer[i] ELSE m[i]]

\* ------------------------------------------------------------ behaviour
Init ==
    /\ active = [c \in Channels |-> FALSE]
    /\ cancelled = [c \in Channels |-> FALSE]
    /\ send_req_active = [c \in Channels |-> FALSE]
    /\ n_tries = [c \in Channels |-> 0]
    /\ seq_num = [c \in Channels |-> 0]
    /\ req = [c \in Channels |-> 0]
    /\ timer = [c \in Channels |-> FALSE]
    /\ pending = [c \in Channels |-> FALSE]
    /\ queue = <<>>
    /\ next_seq = 0
    /\ free = FALSE
    /\ closing = FALSE
    /\ closed = FALSE
    /\ n_sent = 0
    /\ cbs = [r \in Requests |-> 0]
    /\ cb_rc = [r \in Requests |-> 0]
    /\ cause = [r \in Requests |-> "none"]
    /\ tx = [r \in Requests |-> 0]
    /\ waited = [r \in Requests |-> FALSE]
    /\ reused_in_flight = FALSE
    /\ n_outstanding \in 1..NChannels
    /\ last_cb = 0
    /\ out_of_order = FALSE
    /\ xfer = [k \in {"write", "read"} |-> NoTransfer]
    /\ mem = [i \in 1..MaxLen |-> 0]

\* The oracle of a handler: which of the requests it may hand to
\* uv_udp_send (the queued ones and those in S) fail at submission.
Oracle(S) == SUBSET (S \cup {queue[i] : i \in 1..Len(queue)})

\* The user calls rs_send_scp.
SendScp ==
    /\ ~free
    /\ n_sent < MaxRequests
    /\ \E fail \in Oracle({n_sent + 1}) : Becomes(RsSendScp(St, fail))

\* The user calls rs_free.
Free ==
    /\ ~free
    /\ \E fail \in Oracle({}) : Becomes(RsFree(St, fail))

\* libuv completes the send of channel c with the given status.
SendDone(c) ==
    /\ pending[c]
    /\ ~closing
    /\ \E status \in StatusVals, fail \in Oracle({}) :
           Becomes(UdpSendCb(St, c, status, fail))

\* The retransmit timer of channel c fires.
TimerFires(c) ==
    /\ timer[c]
    /\ ~closing
    /\ \E fail \in Oracle({req[c]}) : Becomes(TimerCb(St, c, fail))

\* A datagram arrives: a response, a duplicate, a late or a stray one.
Receive ==
    /\ ~closing
    /\ \E nread \in NreadVals, seq \in SeqVals, fail \in Oracle({}) :
           Becomes(UdpRecvCb(St, nread, seq, fail))

\* The event loop runs the close callbacks of the handles: the connection
\* is freed.
CloseDone ==
    /\ closing
    /\ ~closed
    /\ Becomes([St EXCEPT !.closed = TRUE])

Next ==
    \/ SendScp
    \/ Free
    \/ \E c \in Channels : SendDone(c)
    \/ \E c \in Channels : TimerFires(c)
    \/ Receive
    \/ CloseDone

Spec == Init /\ [][Next]_vars

\* The user calls rs_write with a buffer of data.
Write ==
    /\ ~xfer["write"].started
    /\ \E L \in 1..MaxLen : \E data \in [1..L -> Bytes] :
           xfer' = [xfer EXCEPT !["write"] = StartTransfer(data, n_outstanding)]
    /\ UNCHANGED <<active, cancelled, send_req_active, n_tries, seq_num, req,
                   timer, pending, queue, next_seq, free, closing, closed,
                   n_sent, cbs, cb_rc, cause, tx, waited, reused_in_flight,
                   n_outstanding, last_cb, out_of_order, mem>>

\* A write segment completes.  The peer has performed it when it answers,
\* and may or may not have when the segment fails.  The user's
\* write_callback starts the read-back once the write has succeeded.
WriteSegmentDone ==
    \E seg \in xfer["write"].segs, rc \in SegmentRcs, applied \in BOOLEAN :
        LET W == SegmentCallback(xfer["write"], seg, rc, <<>>, FALSE,
                                 n_outstanding)
        IN  /\ rc = OkRc => applied
            /\ mem' = IF applied
                      THEN MemWrite(mem, seg, xfer["write"].buffer)
                      ELSE mem
            /\ xfer' = [xfer EXCEPT
                          !["write"] = W,
                          !["read"] =
                              IF W.cbs = 1 /\ W.rc = OkRc /\ ~@.started
                              THEN StartTransfer([i \in 1..W.len |-> 0],
                                                 n_outstanding)
                              ELSE @]
            /\ UNCHANGED <<active, cancelled, send_req_active, n_tries,
                           seq_num, req, timer, pending, queue, next_seq, free,
                           closing, closed, n_sent, cbs, cb_rc, cause, tx,
                           waited, reused_in_flight, n_outstanding, last_cb,
                           out_of_order>>

\* A read segment completes, in any order; an answer carries the bytes the
\* peer's memory holds.
ReadSegmentDone ==
    \E seg \in xfer["read"].segs, rc \in SegmentRcs :
        /\ xfer' = [xfer EXCEPT
                      !["read"] = SegmentCallback(@, seg, rc,
                                                  MemSlice(mem, seg), TRUE,
                                                  n_outstanding)]
        /\ UNCHANGED <<active, cancelled, send_req_active, n_tries, seq_num,
                       req, timer, pending, queue, next_seq, free, closing,
                       closed, n_sent, cbs, cb_rc, cause, tx, waited,
                       reused_in_flight, n_outstanding, last_cb, out_of_order,
                       mem>>

BulkNext ==
    \/ Write
    \/ WriteSegmentDone
    \/ ReadSegmentDone

BulkSpec == Init /\ [][BulkNext]_vars

\* The event loop delivers every submitted send's completion callback,
\* fires every armed timer and runs the close callbacks of handles being
\* closed; user calls and datagram arrivals are not obliged to happen.
FairSpec ==
    /\ Spec
    /\ \A c \in Channels : WF_vars(SendDone(c))
    /\ \A c \in Channels : WF_vars(TimerFires(c))
    /\ WF_vars(CloseDone)

\* ---------------------------------------------------------------- claims
\* No event-loop callback of the library is outstanding.
Quiesced == \A c \in Channels : ~pending[c] /\ ~timer[c]

\* C1: every accepted request gets its completion callback exactly once:
\* never twice, and never zero times once the run has quiesced; a request
\* not yet accepted gets none.
C1_ExactlyOneCallback ==
    \A r \in Requests :
        /\ cbs[r] <= 1
        /\ (r > n_sent => cbs[r] = 0)
        /\ (r <= n_sent /\ Quiesced => cbs[r] = 1)

C1_Witness ==
    /\ Quiesced
    /\ n_sent = MaxRequests
    /\ \A r \in Requests : cbs[r] = 1
    /\ \E r \in Requests : cause[r] = "response"
    /\ \E r \in Requests : cause[r] = "free"

\* C2: the dispatch loop never assigns a request to a channel whose send
\* is in flight (flag set, or submitted to libuv and not yet called back).
C2_NoReuseInFlight == ~reused_in_flight

C2_Witness ==
    /\ req[1] > 1
    /\ active[1]
    /\ pending[1]
    /\ send_req_active[1]

\* C3: two distinct active channels hold different sequence numbers.
C3_UniqueSeq ==
    \A c, d \in Channels :
        (c # d /\ active[c] /\ active[d]) => seq_num[c] # seq_num[d]

C3_Witness ==
    \E c, d \in Channels : c # d /\ active[c] /\ active[d] /\ timer[c]

\* C4: from the moment the teardown begins, and so once the connection is
\* freed, no send of the connection is in flight.
C4_NoFreeInFlight ==
    /\ closed => closing
    /\ closing => \A c \in Channels : ~pending[c] /\ ~send_req_active[c]

C4_Witness ==
    closed /\ \E c \in Channels : cancelled[c] /\ req[c] # 0 /\ tx[req[c]] >= 1

\* C5: from the moment the teardown begins, and so when it completes,
\* every channel is inactive.
C5_FreedAllInactive ==
    (closing \/ closed) => \A c \in Channels : ~active[c]

C5_Witness ==
    closed /\ \A c \in Channels : cancelled[c] /\ ~active[c]

\* C6: n_tries counts the transmissions of the request a channel holds, a
\* request is handed to uv_udp_send at most NTries times, and a completion
\* by retry exhaustion comes after exactly NTries transmissions.
C6_TriesBounded ==
    /\ \A c \in Channels :
           (active[c] /\ n_tries[c] <= NTries) => n_tries[c] = tx[req[c]]
    /\ \A r \in Requests :
           /\ tx[r] <= NTries
           /\ (cause[r] = "exhausted" => tx[r] = NTries)

C6_Witness ==
    \E r \in Requests : cause[r] = "exhausted" /\ tx[r] = NTries /\ cbs[r] = 1

\* C7: under fairness of send completions and timers every accepted
\* request is eventually called back, whether or not any datagram ever
\* arrives; a request whose attempts were all lost completes with an
\* error after NTries transmissions.
C7_EventuallyCalledBack ==
    /\ []<>(\A r \in Requests : n_sent >= r => cbs[r] >= 1)
    /\ [](\A r \in Requests :
             cause[r] = "exhausted" => (cb_rc[r] # OkRc /\ tx[r] = NTries))

C7_Witness ==
    /\ n_sent = MaxRequests
    /\ \A r \in Requests : cause[r] = "exhausted" /\ cbs[r] = 1

\* C8: a completion by retry exhaustion and a completion by a failed send
\* (synchronous or asynchronous) carry different error codes.
C8_KindsDistinguishable ==
    \A r1, r2 \in Requests :
        (cause[r1] = "exhausted" /\ cause[r2] \in {"send_failed", "send_error"})
            => cb_rc[r1] # cb_rc[r2]

\* C9: a freeing connection whose teardown has not begun has a send in
\* flight, and under fairness of the event loop's send completions and
\* close callbacks rs_free leads to the completed teardown (free and closed are never reset, so "free leads to closed" is
\* "infinitely often: free implies closed").  rs_free itself never
\* completes the teardown: that is left to the event loop's close
\* callbacks.
C9_FreeCompletes ==
    /\ [](free /\ ~closing => \E c \in Channels : pending[c])
    /\ [][free' /\ ~free => ~closed']_vars
    /\ []<>(free => closed)

C9_Witness ==
    /\ free
    /\ ~closed
    /\ \E c \in Channels : pending[c] /\ cancelled[c]

\* C10: while the connection is not freeing, no state between two
\* callbacks has a queued request and an idle channel.
C10_NoIdleWithQueue ==
    ~free =>
        ~(queue # <<>>
          /\ \E c \in 1..n_outstanding : ~active[c] /\ ~send_req_active[c])

C10_Witness ==
    /\ ~free
    /\ \E r \in Requests, c \in Channels :
           waited[r] /\ req[c] = r /\ active[c]

\* The queue holds requests in the order of their rs_send_scp calls, and
\* every request already taken from it was sent before every queued one.
FifoQueue ==
    /\ \A i, j \in 1..Len(queue) : i < j => queue[i] < queue[j]
    /\ \A r \in 1..n_sent :
           (\A i \in 1..Len(queue) : queue[i] # r)
               => \A i \in 1..Len(queue) : r < queue[i]

AtMostOneActive == Cardinality({c \in Channels : active[c]}) <= 1

C12_BulkCallbackOnce ==
    \A k \in {"write", "read"} :
        LET T == xfer[k]
        IN  /\ T.cbs <= 1
            /\ (T.cbs = 1 =>
                   /\ T.segs = {}
                   /\ T.next = T.len
                   /\ T.done = NSegments(T.len)
                   /\ T.rc = T.first_seen)
            /\ ((T.started /\ T.segs = {} /\ T.next = T.len) => T.cbs = 1)

C12_Witness ==
    /\ xfer["read"].cbs = 1
    /\ xfer["read"].reordered
    /\ xfer["read"].done = NSegments(MaxLen)
    /\ xfer["read"].rc = CancelRc

\* C13: a read that succeeds after a write of the same range has
\* succeeded leaves in its buffer the bytes written, whatever the order of
\* the read segments' completions.
C13_RoundTrip ==
    (xfer["read"].cbs = 1 /\ xfer["read"].rc = OkRc)
        => xfer["read"].buffer = xfer["write"].buffer

C13_Witness ==
    /\ xfer["read"].cbs = 1
    /\ xfer["read"].rc = OkRc
    /\ xfer["read"].reordered
    /\ xfer["read"].len = MaxLen
    /\ xfer["read"].buffer[1] = 1
    /\ xfer["read"].buffer[MaxLen] = 0

\* A datagram of nread bytes carrying seq is short or matches no active
\* channel of the pool.
Stray(nread, seq) ==
    \/ nread < SizeofScpPacket
    \/ ~\E c \in 1..n_outstanding : active[c] /\ seq_num[c] = seq

\* C14: a datagram that is too short (zero and negative lengths included)
\* or matches no active channel is dropped: the receive callback leaves
\* every channel, the queue and the callback records as they were.
C14_StrayDropped ==
    \A nread \in NreadVals, seq \in SeqVals, fail \in Oracle({}) :
        Stray(nread, seq) => UdpRecvCb(St, nread, seq, fail) = St

C14_Witness ==
    \E c \in Channels :
        /\ active[c]
        /\ timer[c]
        /\ queue # <<>>
        /\ UdpRecvCb(St, SizeofScpPacket - 1, seq_num[c], {}) = St
        /\ UdpRecvCb(St, 0 - 1, seq_num[c], {}) = St
        /\ UdpRecvCb(St, SizeofScpPacket, seq_num[c], {}) # St

\* Channel c is cancelled and libuv still holds its send.
CancelledInFlight(c) == cancelled[c] /\ pending[c]

\* In this step the send libuv held for channel c completed: it is no
\* longer held, or the channel already carries another request.
SendCompleted(c) == ~pending'[c] \/ req'[c] # req[c]

\* C15: a channel cancelled with its send in flight stays
\* active and its request is not called back until that send completes;
\* the step that completes the send calls the request back and clears
\* the channel's active and cancelled flags.
C15_DeferredCancel ==
    [][\A c \in Channels :
          CancelledInFlight(c) =>
              /\ cbs[req[c]] = 0
              /\ active[c]
              /\ (~SendCompleted(c) =>
                     (active'[c] /\ cbs'[req[c]] = 0))
              /\ (SendCompleted(c) =>
                     /\ cbs'[req[c]] = 1
                     /\ (req'[c] = req[c] => ~active'[c])
                     /\ ~cancelled'[c])]_vars

\* C16: a channel's retransmit timer becomes armed only in the step that
\* completes the channel's send, and no channel has its timer armed while
\* a send for it is in flight.
C16_TimerOnlyAfterSendDone ==
    [][\A c \in Channels :
          /\ (timer'[c] => (~pending'[c] /\ ~send_req_active'[c]))
          /\ ((~timer[c] /\ timer'[c]) =>
                 (pending[c] /\ ~pending'[c] /\ req'[c] = req[c]))]_vars

C16_Witness ==
    \E c, d \in Channels :
        /\ timer[c] /\ n_tries[c] = NTries /\ ~pending[c]
        /\ pending[d] /\ n_tries[d] = NTries /\ ~timer[d]

\* C18: rs__attempt_transmission on a channel that is not active changes
\* nothing (no try counted, no datagram, no send in flight, no callback),
\* whichever submissions would fail; rs__timer_cb on such a channel
\* transmits nothing and calls nothing back.
C18_InactiveAttemptIsNoOp ==
    \A c \in Channels :
        ~active[c] =>
            \A fail \in Oracle({req[c]}) :
                /\ AttemptTransmission(St, c, fail) = St
                /\ TimerCb(St, c, fail).tx = tx
                /\ TimerCb(St, c, fail).cbs = cbs

\* A channel that completed a request after transmitting it, on which an
\* attempt changes nothing.
C18_Witness ==
    \E c \in Channels :
        /\ ~active[c]
        /\ req[c] # 0
        /\ cbs[req[c]] = 1
        /\ n_tries[c] >= 1
        /\ n_tries[c] < NTries
        /\ ~free
        /\ AttemptTransmission(St, c, {}) = St

\* C19: a channel whose retransmit timer is armed is active and not
\* cancelled, so a channel that is not active has no armed timer.
C19_ArmedTimerMeansActive ==
    \A c \in Channels : timer[c] => (active[c] /\ ~cancelled[c])

\* A channel that completed one request now waits, timer armed, with a
\* later request, while another channel is idle after a completed request.
C19_Witness ==
    \E c, d \in Channels :
        /\ timer[c] /\ active[c]
        /\ req[c] > 1
        /\ \E r \in Requests : r < req[c] /\ cbs[r] = 1 /\ tx[r] >= 1
        /\ ~active[d] /\ req[d] # 0 /\ cbs[req[d]] = 1 /\ ~timer[d]

TypeOK ==
    /\ n_sent \in 0..MaxRequests
    /\ \A c \in Channels : n_tries[c] \in 0..(NTries + 1)
    /\ \A c \in Channels : req[c] \in 0..MaxRequests

====
